---- MODULE Spec2Model ----
(***************************************************************************)
(* BitReader of src/bitio.rs: a bit-level reader over a sequential byte    *)
(* source, with the descriptor primitives read_bit, skip, f(n), su(n),     *)
(* ns(n), uvlc and le(n).                                                   *)
(*                                                                         *)
(* Unsigned machine integers (u8..u64) are kept as four 16-bit limbs,      *)
(* least significant first, because they exceed TLC's 32-bit integers.     *)
(* i32 values are plain integers; i32 arithmetic is done with an explicit  *)
(* overflow flag, so that the build with overflow checks (which panics)    *)
(* and the build without (which wraps) are both modelled.                  *)
(***************************************************************************)
EXTENDS Integers, Sequences, FiniteSets, TLC

VARIABLES inner, bbuf, bpos, pos, build, bit_reads, call

vars == <<inner, bbuf, bpos, pos, build, bit_reads, call>>

\* ------------------------------------------------------------------ bounds

\* Longest byte source, in bytes.
MaxLen == 5

\* Byte values the sources are made of: 0x00 and 0x94 = 10010100.
ByteVals == {0, 148}

\* ------------------------------------------------- machine integers (limbs)

Base == 2^16

Pow2(k) == 2^k

W0 == <<0, 0, 0, 0>>

\* a small natural (< 2^31) as a limb value
WNat(n) == <<n % Base, (n \div Base) % Base, 0, 0>>

WLimb(a, i) == IF i >= 1 /\ i <= 4 THEN a[i] ELSE 0

\* a + b modulo 2^64, and the carry out
WAdd(a, b) ==
    LET s1 == a[1] + b[1]
        s2 == a[2] + b[2] + (s1 \div Base)
        s3 == a[3] + b[3] + (s2 \div Base)
        s4 == a[4] + b[4] + (s3 \div Base)
    IN  [val |-> <<s1 % Base, s2 % Base, s3 % Base, s4 % Base>>,
         ovf |-> s4 >= Base]

\* a - b modulo 2^64, and the borrow out
WSub(a, b) ==
    LET d1 == a[1] - b[1]
        d2 == a[2] - b[2] - (IF d1 < 0 THEN 1 ELSE 0)
        d3 == a[3] - b[3] - (IF d2 < 0 THEN 1 ELSE 0)
        d4 == a[4] - b[4] - (IF d3 < 0 THEN 1 ELSE 0)
    IN  [val |-> <<d1 % Base, d2 % Base, d3 % Base, d4 % Base>>,
         ovf |-> d4 < 0]

\* a < b
WLt(a, b) ==
    \/ a[4] < b[4]
    \/ a[4] = b[4] /\ a[3] < b[3]
    \/ a[4] = b[4] /\ a[3] = b[3] /\ a[2] < b[2]
    \/ a[4] = b[4] /\ a[3] = b[3] /\ a[2] = b[2] /\ a[1] < b[1]

\* a * 2^k modulo 2^64, for k in 0..63
WShl(a, k) ==
    LET q == k \div 16
        r == k % 16
        limb(i) == ((WLimb(a, i - q) * Pow2(r)) % Base)
                   + ((WLimb(a, i - q - 1) * Pow2(r)) \div Base)
    IN  <<limb(1), limb(2), limb(3), limb(4)>>

\* the low `bits` bits of a, for bits in {8, 16, 32, 64}
WTrunc(a, bits) ==
    CASE bits = 8  -> <<a[1] % 256, 0, 0, 0>>
      [] bits = 16 -> <<a[1], 0, 0, 0>>
      [] bits = 32 -> <<a[1], a[2], 0, 0>>
      [] OTHER     -> a

\* bit k (0 = least significant) of a
WBit(a, k) == (a[(k \div 16) + 1] \div Pow2(k % 16)) % 2

\* bitwise AND of two 16-bit limbs
RECURSIVE LimbAnd(_, _, _)
LimbAnd(a, b, k) ==
    IF k = 0 THEN 0
    ELSE ((a % 2) * (b % 2)) + 2 * LimbAnd(a \div 2, b \div 2, k - 1)

WAnd(a, b) == <<LimbAnd(a[1], b[1], 16), LimbAnd(a[2], b[2], 16),
                LimbAnd(a[3], b[3], 16), LimbAnd(a[4], b[4], 16)>>

\* --------------------------------------------------- Rust integer arithmetic
\* Each operation yields the wrapped value and whether it overflowed: a build
\* with overflow checks panics on ovf, a build without continues with val.

I32Max == (2^30 - 1) + 2^30
I32Min == (-I32Max) - 1

\* `v as i32` of a u32, and `v as u32` of an i32 (two's complement)
AsI32(x) == IF x[2] >= Base \div 2 THEN ((x[2] - Base) * Base) + x[1]
            ELSE (x[2] * Base) + x[1]
AsU32(v) == <<v % Base, (v \div Base) % Base, 0, 0>>

\* u32 `a << k`: overflows when k >= 32, and then shifts by k mod 32;
\* bits shifted beyond bit 31 are dropped
U32Shl(a, k) ==
    LET e == k % 32
        p == Pow2(e % 16)
    IN  [val |-> IF e < 16
                 THEN <<(a[1] * p) % Base, ((a[2] * p) % Base) + ((a[1] * p) \div Base), 0, 0>>
                 ELSE <<0, (a[1] * p) % Base, 0, 0>>,
         ovf |-> k >= 32]
\* u32 `a - b` and `a + b`
U32Sub(a, b) == [val |-> WTrunc(WSub(a, b).val, 32), ovf |-> WLt(a, b)]
U32Add(a, b) == LET s == WAdd(a, b).val
                IN  [val |-> WTrunc(s, 32), ovf |-> s[3] # 0]
\* u64 `a << k`, `a - b`, `a + b`
U64Shl(a, k) == [val |-> WShl(a, k % 64), ovf |-> k >= 64]
U64Sub(a, b) == WSub(a, b)
U64Add(a, b) == WAdd(a, b)

\* i32 `a << k`
I32Shl(a, k) == [val |-> AsI32(WTrunc(WShl(AsU32(a), k % 32), 32)), ovf |-> k >= 32]
\* i32 `a & b`
I32And(a, b) == AsI32(WAnd(AsU32(a), AsU32(b)))
\* i32 `a * 2^e` for the literal factor 2 (e = 1)
I32Mul2(a) == [val |-> AsI32(WTrunc(WShl(AsU32(a), 1), 32)),
               ovf |-> a > (I32Max \div 2) \/ a < -(I32Max \div 2) - 1]
\* i32 `a - b`: with A = a + 2^31 and B = b + 2^31 (both in 0..2^32-1),
\* a - b is in range exactly when 0 <= A + 2^31 - B < 2^32
I32Sub(a, b) ==
    LET half == <<0, Base \div 2, 0, 0>>
        A    == WTrunc(WAdd(AsU32(a), half).val, 32)
        B    == WTrunc(WAdd(AsU32(b), half).val, 32)
        T    == WAdd(A, half).val
        D    == WSub(T, B)
    IN  [val |-> AsI32(WTrunc(WSub(AsU32(a), AsU32(b)).val, 32)),
         ovf |-> D.ovf \/ D.val[3] # 0]

\* ------------------------------------------------------------------ results

None == [tag |-> "None"]
Some(v) == [tag |-> "Some", val |-> v]
Panic(why) == [tag |-> "panic", why |-> why]

Out(r, res) == [rd |-> r, res |-> res]

\* ------------------------------------------------------------- numeric cast

Types == {"bool", "u8", "u16", "u32", "u64"}

TypeBytes(T) == CASE T = "u8" -> 1 [] T = "u16" -> 2 [] T = "u32" -> 4 [] OTHER -> 8

\* FromU32::from_u32: `v != 0` for bool, `v as T` for the unsigned types
from_u32(v, T) ==
    IF T = "bool" THEN (IF v = W0 THEN WNat(0) ELSE WNat(1))
    ELSE WTrunc(v, 8 * TypeBytes(T))

\* ------------------------------------------------------------------- reader

\* inner_read reading past a byte: the source moves on two bytes per fetch
inner_read_two(src) ==
    IF src.off < Len(src.data)
    THEN [n |-> 1, byte |-> src.data[src.off + 1],
          src |-> [src EXCEPT !.off = IF @ + 2 <= Len(src.data) THEN @ + 2 ELSE @ + 1]]
    ELSE [n |-> 0, byte |-> 0, src |-> src]

\* The byte source: an in-memory byte sequence read front to back.
\* io::Read::read into a one-byte buffer: n = 0 at the end, else one byte.
inner_read(src) ==
    IF src.off < Len(src.data)
    THEN [n |-> 1, byte |-> src.data[src.off + 1],
          src |-> [src EXCEPT !.off = @ + 1]]
    ELSE [n |-> 0, byte |-> 0, src |-> src]

\* BitReader::new
new(src) == [inner |-> src, bbuf |-> 0, bpos |-> 0, pos |-> 0, bit_reads |-> 0]

get_position(r) == r.pos

\* read_bit taking the bits of a byte least significant first
read_bit_lsb(r) ==
    LET got  == inner_read(r.inner)
        fill == IF r.bpos = 0
                THEN [r EXCEPT !.inner = got.src, !.bbuf = got.byte, !.bpos = 8]
                ELSE r
    IN  IF r.bpos = 0 /\ got.n = 0
        THEN Out(r, None)
        ELSE Out([fill EXCEPT !.bpos = @ - 1, !.pos = @ + 1, !.bit_reads = @ + 1],
                 Some((fill.bbuf \div Pow2(8 - fill.bpos)) % 2))

\* read_bit advancing the position before it looks for a byte, so that a
\* failed read is counted too
read_bit_counts_eof(r) ==
    LET got  == inner_read(r.inner)
        fill == IF r.bpos = 0
                THEN [r EXCEPT !.inner = got.src, !.bbuf = got.byte, !.bpos = 8]
                ELSE r
    IN  IF r.bpos = 0 /\ got.n = 0
        THEN Out([r EXCEPT !.pos = @ + 1], None)
        ELSE Out([fill EXCEPT !.bpos = @ - 1, !.pos = @ + 1, !.bit_reads = @ + 1],
                 Some((fill.bbuf \div Pow2(fill.bpos - 1)) % 2))

\* read_bit clearing the cached byte when its last bit is consumed
read_bit_clears(r) ==
    LET got  == inner_read(r.inner)
        fill == IF r.bpos = 0
                THEN [r EXCEPT !.inner = got.src, !.bbuf = got.byte, !.bpos = 8]
                ELSE r
    IN  IF r.bpos = 0 /\ got.n = 0
        THEN Out(r, None)
        ELSE Out([fill EXCEPT !.bpos = @ - 1, !.pos = @ + 1, !.bit_reads = @ + 1,
                              !.bbuf = IF fill.bpos = 1 THEN 0 ELSE @],
                 Some((fill.bbuf \div Pow2(fill.bpos - 1)) % 2))

\* read_bit: one bit, most significant first, or None at the end of the source
read_bit(r) ==
    LET got  == inner_read(r.inner)
        fill == IF r.bpos = 0
                THEN [r EXCEPT !.inner = got.src, !.bbuf = got.byte, !.bpos = 8]
                ELSE r
    IN  IF r.bpos = 0 /\ got.n = 0
        THEN Out(r, None)
        ELSE Out([fill EXCEPT !.bpos = @ - 1, !.pos = @ + 1, !.bit_reads = @ + 1],
                 Some((fill.bbuf \div Pow2(fill.bpos - 1)) % 2))

\* skip(n)
RECURSIVE skip(_, _)
skip(r, n) ==
    IF n = 0 THEN Out(r, Some(<<>>))
    ELSE LET b == read_bit(r)
         IN  IF b.res.tag = "None" THEN Out(b.rd, None) ELSE skip(b.rd, n - 1)

\* `a | bit` for a bit 0 or 1: only the lowest bit of a can change
U32OrBit(a, bit) == IF a[1] % 2 = 1 THEN a ELSE <<a[1] + bit, a[2], a[3], a[4]>>

\* the loop of f: x = (x << 1) | bit, nbit times (the shift amount 1 never
\* overflows; bits shifted out of the u32 are dropped)
RECURSIVE f_loop(_, _, _)
f_loop(r, nbit, x) ==
    IF nbit = 0 THEN Out(r, Some(x))
    ELSE LET b  == read_bit(r)
             sh == U32Shl(x, 1)
         IN  IF b.res.tag = "None" THEN Out(b.rd, None)
             ELSE IF sh.ovf THEN Out(b.rd, Panic("overflow"))
             ELSE f_loop(b.rd, nbit - 1, U32OrBit(sh.val, b.res.val))

\* f(n): read n bits into a u32, cast to T
f(r, nbit, T) ==
    IF nbit > 32 THEN Out(r, Panic("assert"))
    ELSE LET o == f_loop(r, nbit, W0)
         IN  IF o.res.tag = "None" THEN o ELSE Out(o.rd, Some(from_u32(o.res.val, T)))

\* su(n): n-bit two's complement, in i32 arithmetic.  chk: overflow checks on.
su(r, n, chk) ==
    LET o     == f(r, n, "u32")
        value == AsI32(o.res.val)
        \* n - 1 in usize: underflows for n = 0 (wraps to 2^64 - 1)
        k     == IF n = 0 THEN 63 ELSE n - 1
        sm    == I32Shl(1, k)
        twice == I32Mul2(sm.val)
        diff  == I32Sub(value, twice.val)
    IN  IF o.res.tag # "Some" THEN o
        ELSE IF chk /\ (n = 0 \/ sm.ovf) THEN Out(o.rd, Panic("overflow"))
        ELSE IF I32And(value, sm.val) = 0 THEN Out(o.rd, Some(value))
        ELSE IF chk /\ (twice.ovf \/ diff.ovf) THEN Out(o.rd, Panic("overflow"))
        ELSE Out(o.rd, Some(diff.val))

\* x >> 1 of a u32
U32Shr1(x) == <<(x[1] \div 2) + ((x[2] % 2) * (Base \div 2)), x[2] \div 2, 0, 0>>

\* floor_log2(x), for x >= 1: shift x right to zero counting the shifts, minus 1
RECURSIVE floor_log2_loop(_, _)
floor_log2_loop(x, s) == IF x = W0 THEN s ELSE floor_log2_loop(U32Shr1(x), s + 1)

floor_log2(x) == floor_log2_loop(x, 0) - 1

\* ns(n), n a u32 >= 1
ns(r, n, chk) ==
    LET w     == floor_log2(n) + 1
        one   == U32Shl(WNat(1), w)
        m     == U32Sub(one.val, n)
        o     == f(r, w - 1, "u32")
        v     == o.res.val
        e     == f(o.rd, 1, "u32")
        dbl   == U32Shl(v, 1)
        less  == U32Sub(dbl.val, m.val)
        plus  == U32Add(less.val, e.res.val)
    IN  IF chk /\ (one.ovf \/ m.ovf) THEN Out(r, Panic("overflow"))
        ELSE IF o.res.tag # "Some" THEN o
        ELSE IF WLt(v, m.val) THEN Out(o.rd, Some(v))
        ELSE IF e.res.tag # "Some" THEN e
        ELSE IF chk /\ (dbl.ovf \/ less.ovf \/ plus.ovf) THEN Out(e.rd, Panic("overflow"))
        ELSE Out(e.rd, Some(plus.val))

\* the first loop of uvlc: count zero bits up to and including the first 1 bit
RECURSIVE uvlc_loop(_, _)
uvlc_loop(r, leading_zeros) ==
    LET b == read_bit(r)
    IN  IF b.res.tag = "None" THEN Out(b.rd, None)
        ELSE IF b.res.val > 0 THEN Out(b.rd, Some(leading_zeros))
        ELSE uvlc_loop(b.rd, leading_zeros + 1)

\* uvlc without the final `- 1`
uvlc_no_minus_one(r, chk) ==
    LET z     == uvlc_loop(r, 0)
        lz    == z.res.val
        top   == U64Shl(WNat(1), 32)
        sat   == U64Sub(top.val, WNat(1))
        o     == f(z.rd, lz, "u64")
        one   == U64Shl(WNat(1), lz)
        plus  == U64Add(o.res.val, one.val)
    IN  IF z.res.tag = "None" THEN z
        ELSE IF lz >= 32 THEN Out(z.rd, Some(sat.val))
        ELSE IF o.res.tag # "Some" THEN o
        ELSE IF chk /\ (one.ovf \/ plus.ovf) THEN Out(o.rd, Panic("overflow"))
        ELSE Out(o.rd, Some(plus.val))

\* uvlc, in u64 arithmetic
uvlc(r, chk) ==
    LET z     == uvlc_loop(r, 0)
        lz    == z.res.val
        top   == U64Shl(WNat(1), 32)
        sat   == U64Sub(top.val, WNat(1))
        o     == f(z.rd, lz, "u64")
        one   == U64Shl(WNat(1), lz)
        plus  == U64Add(o.res.val, one.val)
        less  == U64Sub(plus.val, WNat(1))
    IN  IF z.res.tag = "None" THEN z
        ELSE IF lz >= 32 THEN Out(z.rd, Some(sat.val))
        ELSE IF o.res.tag # "Some" THEN o
        ELSE IF chk /\ (one.ovf \/ plus.ovf \/ less.ovf) THEN Out(o.rd, Panic("overflow"))
        ELSE Out(o.rd, Some(less.val))

\* the loop of le: t += f(8).unwrap() << (i * 8), for i in 0..n, t a u32
RECURSIVE le_loop(_, _, _, _, _)
le_loop(r, i, n, t, chk) ==
    IF i >= n THEN Out(r, Some(t))
    ELSE LET o   == f(r, 8, "u32")
             sh  == U32Shl(o.res.val, i * 8)
             sum == U32Add(t, sh.val)
         IN  IF o.res.tag = "None" THEN Out(o.rd, Panic("unwrap"))
             ELSE IF (sh.ovf \/ sum.ovf) /\ chk THEN Out(o.rd, Panic("overflow"))
             ELSE le_loop(o.rd, i + 1, n, sum.val, chk)

\* le(n): n bytes, least significant first, cast to T
le(r, n, T, chk) ==
    LET o == le_loop(r, 0, n, W0, chk)
    IN  IF o.res.tag # "Some" THEN o ELSE Out(o.rd, Some(from_u32(o.res.val, T)))

\* ------------------------------------------------------------ state machine

\* all sequences over S of length 0..n
RECURSIVE SeqsUpTo(_, _)
SeqsUpTo(S, n) ==
    IF n = 0 THEN {<<>>}
    ELSE LET shorter == SeqsUpTo(S, n - 1)
         IN  shorter \cup {Append(q, b) : q \in {x \in shorter : Len(x) = n - 1}, b \in S}

\* the reader as one value
Reader == [inner |-> inner, bbuf |-> bbuf, bpos |-> bpos, pos |-> pos,
           bit_reads |-> bit_reads]

\* A reader freshly constructed over one of the byte sources.
\* build = "any": no arithmetic has overflowed yet, so the run is one that
\* both the build with overflow checks and the build without produce.
InitOver(sources) ==
    /\ inner \in {[data |-> d, off |-> 0] : d \in sources}
    /\ bbuf = new(inner).bbuf
    /\ bpos = new(inner).bpos
    /\ pos = new(inner).pos
    /\ bit_reads = new(inner).bit_reads
    /\ build = "any"
    /\ call = [op |-> "new", arg |-> 0, ty |-> "-", res |-> Some(<<>>), pos0 |-> 0]

Init == InitOver(SeqsUpTo(ByteVals, MaxLen))

\* a call of the reader's method `op` returning outcome o: the reader's
\* fields and the record of the call (its arguments, result, and the position
\* it started at).  A panic ends the program.
Return(o, op, arg, T) ==
    /\ call.res.tag # "panic"
    /\ inner' = o.rd.inner
    /\ bbuf' = o.rd.bbuf
    /\ bpos' = o.rd.bpos
    /\ pos' = o.rd.pos
    /\ bit_reads' = o.rd.bit_reads
    /\ call' = [op |-> op, arg |-> arg, ty |-> T, res |-> o.res, pos0 |-> pos]

\* a call whose arithmetic may overflow: `checked` is its outcome in a build
\* with overflow checks, `wrapping` in a build without.  They differ exactly
\* when an overflow happens; the panic is possible only while no earlier
\* overflow has wrapped, and wrapping fixes the build for the rest of the run.
Arith(checked, wrapping, op, arg, T) ==
    IF checked = wrapping
    THEN Return(wrapping, op, arg, T) /\ UNCHANGED build
    ELSE \/ build = "any" /\ Return(checked, op, arg, T) /\ UNCHANGED build
         \/ Return(wrapping, op, arg, T) /\ build' = "release"

\* the arguments the calls are made with
SkipArgs == {0, 3, 9}
FArgs == {<<0, "u32">>, <<1, "bool">>, <<8, "u8">>, <<12, "u16">>, <<32, "u64">>,
          <<33, "u32">>}
SuArgs == {1, 8, 31, 32}
NsArgs == {WNat(1), WNat(5), WNat(8), <<1, Base \div 2, 0, 0>>}
LeArgs == {<<0, "u32">>, <<1, "u8">>, <<4, "u32">>, <<5, "u64">>}

CallReadBit ==
    \E b \in {read_bit(Reader)} :
        /\ Return(IF b.res.tag = "Some" THEN Out(b.rd, Some(WNat(b.res.val))) ELSE b,
                  "read_bit", 0, "u8")
        /\ UNCHANGED build

CallSkip(n) ==
    \E o \in {skip(Reader, n)} : Return(o, "skip", n, "-") /\ UNCHANGED build

CallF(n, T) ==
    \E o \in {f(Reader, n, T)} : Return(o, "f", n, T) /\ UNCHANGED build

CallSu(n) ==
    \E c \in {su(Reader, n, TRUE)}, w \in {su(Reader, n, FALSE)} :
        Arith(c, w, "su", n, "i32")

CallNs(n) ==
    \E c \in {ns(Reader, n, TRUE)}, w \in {ns(Reader, n, FALSE)} :
        Arith(c, w, "ns", n, "u32")

CallUvlc ==
    \E c \in {uvlc(Reader, TRUE)}, w \in {uvlc(Reader, FALSE)} :
        Arith(c, w, "uvlc", 0, "u64")

CallLe(n, T) ==
    \E c \in {le(Reader, n, T, TRUE)}, w \in {le(Reader, n, T, FALSE)} :
        Arith(c, w, "le", n, T)

Next ==
    \/ CallReadBit
    \/ \E n \in SkipArgs : CallSkip(n)
    \/ \E a \in FArgs : CallF(a[1], a[2])
    \/ \E n \in SuArgs : CallSu(n)
    \/ \E a \in LeArgs : CallLe(a[1], a[2])
    \/ CallUvlc
    \/ \E n \in NsArgs : CallNs(n)

Spec == Init /\ [][Next]_vars

\* f::<u32>(n) for every width, from every bit position
NextF ==
    \/ CallReadBit
    \/ \E n \in 0..32 : CallF(n, "u32")

SpecF == Init /\ [][NextF]_vars

\* uvlc over sources of more byte values
WideVals == {0, 1, 40, 148, 255}

InitWide == InitOver(SeqsUpTo(WideVals, MaxLen))

NextUvlc ==
    \/ CallReadBit
    \/ CallUvlc

SpecUvlc == InitWide /\ [][NextUvlc]_vars

\* ------------------------------------------------------ the stream, as bits

\* number of bits of the source
TotalBits == 8 * Len(inner.data)

\* bits left in the stream when the last call started
BitsLeft0 == TotalBits - call.pos0

\* bit i of the stream (i from 0): bytes in order, each most significant bit first
StreamBit(i) == (inner.data[(i \div 8) + 1] \div Pow2(7 - (i % 8))) % 2

\* the stream's bits i .. i+len-1 as a binary number, first bit most
\* significant, for len <= 16
BitsNat(i, len) ==
    LET digit[k \in 0..len] ==
            IF k = 0 THEN 0 ELSE (2 * digit[k - 1]) + StreamBit(i + k - 1)
    IN  digit[len]

\* the same for len <= 64, as limbs
BitsW(i, len) ==
    LET limb(j) == LET above == len - (16 * (j - 1))
                       n     == IF above > 16 THEN 16 ELSE above
                   IN  IF above <= 0 THEN 0 ELSE BitsNat(i + above - n, n)
    IN  <<limb(1), limb(2), limb(3), limb(4)>>

\* index of the highest set bit of a nonzero limb value
TopBit(a) == CHOOSE k \in 0..63 : WBit(a, k) = 1 /\ \A j \in (k + 1)..63 : WBit(a, j) = 0

\* ------------------------------------------------------------------- claims

\* C2: with at least n bits left, f::<u32>(n) for n in 1..32 returns the number
\* whose binary digits are the next n bits of the stream, first bit most
\* significant, from any bit position; read_bit returns the next bit of the
\* stream, bytes in order and each byte most significant bit first.
FReadsStreamBits ==
    /\ (call.op = "f" /\ call.ty = "u32" /\ call.arg \in 1..32 /\ call.arg <= BitsLeft0)
          => /\ call.res.tag = "Some"
             /\ call.res.val = BitsW(call.pos0, call.arg)
             /\ pos = call.pos0 + call.arg
    /\ (call.op = "read_bit" /\ BitsLeft0 >= 1)
          => /\ call.res.tag = "Some"
             /\ call.res.val = WNat(StreamBit(call.pos0))

\* C2 witness: a 32-bit read that starts inside a byte and has its top bit set
FWideUnaligned ==
    /\ call.op = "f" /\ call.arg = 32 /\ call.ty = "u32"
    /\ call.pos0 % 8 = 3
    /\ call.res.tag = "Some"
    /\ call.res.val[2] >= Base \div 2
    /\ call.res.val[1] # 0

\* C1: every read operation (read_bit, skip(n) with n >= 1, f(n) with
\* 1 <= n <= 32, su(n), ns(n) with n >= 2, uvlc, le(n) with n >= 1) called
\* when the source is exhausted and the bit cache is empty returns None and
\* does not panic.
ExhaustedReadReturnsNone ==
    (/\ BitsLeft0 = 0
     /\ \/ call.op \in {"read_bit", "su", "uvlc"}
        \/ call.op \in {"skip", "le"} /\ call.arg >= 1
        \/ call.op = "f" /\ call.arg \in 1..32
        \/ call.op = "ns" /\ WLt(WNat(1), call.arg))
    => call.res.tag = "None"

\* the value of the n-bit two's complement field at stream bit i, n in 1..32
SignedField(i, n) ==
    LET pattern == BitsW(i, n)
        \* 2^n - pattern - 1, which is below 2^31 for a negative field
        below   == WSub(WSub(WShl(WNat(1), n), pattern).val, WNat(1)).val
    IN  IF StreamBit(i) = 0 THEN (pattern[2] * Base) + pattern[1]
        ELSE (-((below[2] * Base) + below[1])) - 1

\* C3: for n in 1..32, when the next n bits are the n-bit two's complement
\* pattern of v, su(n) returns v and does not panic, the case n = 32 with v
\* negative included.
SuDecodesTwosComplement ==
    (call.op = "su" /\ call.arg \in 1..32 /\ call.arg <= BitsLeft0)
    => /\ call.res.tag = "Some"
       /\ call.res.val = SignedField(call.pos0, call.arg)

\* the parameters of the truncated binary code for alphabet size n
NsW(n) == TopBit(n) + 1
NsM(n) == WSub(WShl(WNat(1), NsW(n)), n).val

\* C4: for every n >= 1, ns(n) never panics, its result v is below n, it has
\* consumed exactly w-1 bits when v < m and w bits when v >= m, and the bits
\* consumed are the one code word of v: v in w-1 bits when v < m, v + m in w
\* bits otherwise (so ns(1) returns 0 and consumes nothing).
NsIsTruncatedBinary ==
    call.op = "ns" =>
        /\ call.res.tag # "panic"
        /\ call.res.tag = "Some" =>
              LET v == call.res.val
                  w == NsW(call.arg)
                  m == NsM(call.arg)
              IN  /\ WLt(v, call.arg)
                  /\ IF WLt(v, m)
                     THEN /\ pos = call.pos0 + w - 1
                          /\ BitsW(call.pos0, w - 1) = v
                     ELSE /\ pos = call.pos0 + w
                          /\ BitsW(call.pos0, w) = WAdd(v, m).val
        \* and the code word at the head of the stream, when whole, is decoded
        /\ call.res.tag = "None" =>
              \/ BitsLeft0 < NsW(call.arg) - 1
              \/ /\ BitsLeft0 = NsW(call.arg) - 1
                 /\ ~WLt(BitsW(call.pos0, NsW(call.arg) - 1), NsM(call.arg))

\* C6: for n up to the byte width of T and at least 8n bits left, le::<T>(n)
\* consumes exactly 8n bits and returns the sum of b_i * 2^(8i), b_i the i-th
\* byte consumed.
LeIsLittleEndian ==
    (call.op = "le" /\ call.arg <= TypeBytes(call.ty) /\ 8 * call.arg <= BitsLeft0)
    => LET b(i) == IF i < call.arg THEN BitsNat(call.pos0 + (8 * i), 8) ELSE 0
       IN  /\ call.res.tag = "Some"
           /\ pos = call.pos0 + (8 * call.arg)
           /\ call.res.val = <<b(0) + (256 * b(1)), b(2) + (256 * b(3)),
                               b(4) + (256 * b(5)), b(6) + (256 * b(7))>>

\* number of zero bits of the stream from bit i up to the first 1 bit, or up
\* to the end of the stream
ZeroRun(i) ==
    LET ends == {k \in 0..(TotalBits - i) : k = TotalBits - i \/ StreamBit(i + k) = 1}
    IN  CHOOSE k \in ends : \A j \in ends : k <= j

\* 2^32 - 1
Saturated == <<Base - 1, Base - 1, 0, 0>>

\* C5: uvlc decodes the exponential code exactly.  A result x other than
\* 2^32 - 1 has consumed exactly 2L+1 bits, L = floor_log2(x + 1): L zero
\* bits, then the L+1 binary digits of x + 1 (a 1 bit and the L-bit binary of
\* x + 1 - 2^L).  Every such code word at the head of the stream is decoded
\* (the call fails only when the stream ends inside the code word).  A code
\* word of 32 or more zero bits and a 1 bit returns 2^32 - 1 and consumes the
\* zeros and the 1 bit and no more.
UvlcDecodesExpCode ==
    call.op = "uvlc" =>
        LET z     == ZeroRun(call.pos0)
            whole == z < BitsLeft0 /\ (z >= 32 \/ (2 * z) + 1 <= BitsLeft0)
        IN  /\ call.res.tag # "panic"
            /\ call.res.tag = "Some" <=> whole
            /\ (whole /\ z >= 32) =>
                  /\ call.res.val = Saturated
                  /\ pos = call.pos0 + z + 1
            /\ (whole /\ z < 32) =>
                  LET y == WAdd(call.res.val, WNat(1)).val
                      L == TopBit(y)
                  IN  /\ WLt(call.res.val, Saturated)
                      /\ pos = call.pos0 + (2 * L) + 1
                      /\ BitsW(call.pos0, L) = W0
                      /\ BitsW(call.pos0 + L, L + 1) = y

\* C5 witness: 32 or more zero bits, then a 1 bit, decoded from inside a byte
UvlcSaturates ==
    /\ call.op = "uvlc"
    /\ call.res.tag = "Some"
    /\ call.res.val = Saturated
    /\ call.pos0 % 8 # 0
    /\ pos > call.pos0 + 33

\* C5, the example: the bits 00101 decode to 4, consuming 5 bits
UvlcExample ==
    /\ call.op = "uvlc"
    /\ BitsLeft0 >= 5
    /\ BitsNat(call.pos0, 5) = 5
    /\ call.res = Some(WNat(4))
    /\ pos = call.pos0 + 5

\* C7: get_position() is the number of successful single-bit reads since
\* construction, whichever operations made them and whether they succeeded:
\* a successful read_bit, skip(n), f(n), su(n) or le(n) has added 1, n, n, n
\* or 8n, a failed read_bit has added nothing, and no call moves it back.
PositionCountsBitReads ==
    /\ get_position(Reader) = bit_reads
    /\ pos >= call.pos0
    /\ (call.op = "read_bit" /\ call.res.tag = "Some") => pos = call.pos0 + 1
    /\ (call.op = "read_bit" /\ call.res.tag = "None") => pos = call.pos0
    /\ (call.op \in {"skip", "f", "su"} /\ call.res.tag = "Some") => pos = call.pos0 + call.arg
    /\ (call.op = "le" /\ call.res.tag = "Some") => pos = call.pos0 + (8 * call.arg)

\* C7 witness: a call that failed after reading some bits, on a reader that
\* earlier calls had already advanced
FailedAfterSomeReads ==
    /\ call.res.tag = "None"
    /\ call.op = "f"
    /\ call.pos0 > 0
    /\ pos > call.pos0

\* the last call ran out of stream: it needed more bits than were left
NeededMore ==
    \/ call.op \in {"skip", "su"} /\ call.arg > BitsLeft0
    \/ call.op = "f" /\ call.arg <= 32 /\ call.arg > BitsLeft0
    \/ call.op = "ns" /\ \/ BitsLeft0 < NsW(call.arg) - 1
                         \/ /\ BitsLeft0 = NsW(call.arg) - 1
                            /\ ~WLt(BitsW(call.pos0, BitsLeft0), NsM(call.arg))
    \/ call.op = "uvlc" /\ \/ ZeroRun(call.pos0) = BitsLeft0
                           \/ /\ ZeroRun(call.pos0) < 32
                              /\ (2 * ZeroRun(call.pos0)) + 1 > BitsLeft0

\* C8: a multi-bit operation (skip, f, su, ns, uvlc) called with k bits left
\* that needs more than k returns None, and the k bits it read stay consumed:
\* the position has advanced by exactly k and the reader is at the end of the
\* stream.
ShortReadConsumesAll ==
    NeededMore =>
        /\ call.res.tag = "None"
        /\ pos = call.pos0 + BitsLeft0
        /\ bpos = 0
        /\ inner.off = Len(inner.data)

\* C9: bits_remaining_in_buffer is in 0..8, and 8 * (bytes fetched) =
\* position + bits_remaining_in_buffer: bytes are fetched one at a time and
\* only when a bit is wanted from an empty cache, so the position is a
\* multiple of 8 exactly when the cache is empty.
CacheAccounting ==
    /\ bpos \in 0..8
    /\ 8 * inner.off = get_position(Reader) + bpos
    /\ (get_position(Reader) % 8 = 0) <=> (bpos = 0)
    /\ inner.off <= Len(inner.data)

\* C9 witness: a call that crossed two byte boundaries and stopped inside a byte
CrossedBytes ==
    /\ bpos \in 1..7
    /\ inner.off >= call.pos0 \div 8 + 3
    /\ call.res.tag = "Some"

\* C10 as stated: whenever the bit cache is empty, bit_buffer holds 0.
BufferZeroWhenEmpty == bpos = 0 => bbuf = 0

\* C10 amended: bit_buffer holds 0 until the first byte is fetched, and from
\* then on the last byte fetched, also when all its bits have been consumed.
BufferHoldsLastByte ==
    /\ inner.off = 0 => bbuf = 0
    /\ inner.off > 0 => bbuf = inner.data[inner.off]

\* C10 witness: the cache is empty after a nonzero byte was consumed whole
DrainedNonzeroByte ==
    /\ bpos = 0
    /\ inner.off > 0
    /\ bbuf # 0

====
